---- MODULE Spec2Model ----
(***************************************************************************)
(* A model of pysettrie (src/settrie/__init__.py): the set-trie containers *)
(* SetTrie, SetTrieMap and SetTrieMultiMap.                                *)
(*                                                                         *)
(* A Node object is identified by the sequence of labels on the way from   *)
(* the root to it (the root is << >>); `nodes` maps every node that exists *)
(* to its fields.  A node's SortedList of children is the sequence of the  *)
(* children's data labels, in the order the list holds them: the child of  *)
(* node p that sits at position i is the node Append(p, children[i]).      *)
(*                                                                         *)
(* Python's None is the empty tuple << >>; a node's value field holds None *)
(* or <<x>> (x the payload for a SetTrieMap, the list of payloads for a    *)
(* SetTrieMultiMap), so that `value is None` is a comparison of tuples.    *)
(*                                                                         *)
(* add/assign are the actions that change the trie.  A query is an action  *)
(* that records what the call returned in `qret`; a generator the caller   *)
(* holds is a record in `its` (its suspended frames and its path list) and *)
(* next() on it is an action of its own.  printtree is the sequence of the *)
(* lines it writes to the stream.                                          *)
(***************************************************************************)
EXTENDS Integers, Sequences, FiniteSets, TLC

\* ------------------------------------------------------------- bounds

\* Set elements are 1..MaxElem.
MaxElem == 3

\* In the specification where the caller holds iterators, at most MaxIterOps
\* add/assign calls are made.
MaxIterOps == 2

\* In the specifications where the caller also queries the container, at
\* most MaxQueryOps add/assign calls are made.
MaxQueryOps == 1

\* At most MaxOps add/assign calls are made on a container.
MaxOps == 3

\* An iterable a caller passes that is not a set holds at most MaxLen items.
MaxLen == 2

Elems == 1..MaxElem

\* The sets a caller passes: as an argument of add/assign and as a query.
Sets == SUBSET Elems

\* The payloads a caller assigns in a SetTrieMap or SetTrieMultiMap.
Values == {"A", "B"}

\* The lists a caller passes where a set is expected: the items in any
\* order, an item possibly more than once.
Lists == UNION {[1..n -> Elems] : n \in 0..MaxLen}

\* ------------------------------------------------------------- state

VARIABLES
    kind,       \* the class that was constructed (cls in the classmethods)
    nodes,      \* the trie: path of a node |-> its fields
    assigned,   \* history: key set |-> the values passed for it, in call order
    nops,       \* history: the number of add/assign calls made
    ret,        \* what the last add/assign call returned
    qret,       \* <<name, result>> of the last call if it was a query, or None
    its         \* the iterators the caller holds: id |-> generator state or None

vars == <<kind, nodes, assigned, nops, ret, qret, its>>

Kinds == {"SetTrie", "SetTrieMap", "SetTrieMultiMap"}

None == << >>

Some(x) == <<x>>

\* A default a caller passes to get: none, or an object of its own.
Defaults == {None, Some("dflt")}

\* The names of the iterators a caller holds at a time.
IterIds == {1, 2}

\* The modes an enumeration of a map accepts: 'keys', 'values', None, and
\* anything else.
Modes == {"keys", "values", "None", "other"}

\* ------------------------------------------------------------- helpers

\* sorted(aset): the elements of a set in ascending order.
RECURSIVE sorted(_)
sorted(S) ==
    IF S = {} THEN << >>
    ELSE LET m == CHOOSE x \in S : \A y \in S : x <= y
         IN  <<m>> \o sorted(S \ {m})

\* set(path)
set(path) == {path[i] : i \in 1..Len(path)}

\* Node.__init__(data): no children, not terminal, no value.
Node(data) ==
    [children |-> << >>, data |-> data, flag_last |-> FALSE, value |-> None]

\* SortedList.index(Node(data)): the position of the first child whose data
\* equals data (BaseNode.__eq__), or 0 for ValueError.
index(children, data) ==
    IF \E i \in 1..Len(children) : children[i] = data
    THEN CHOOSE i \in 1..Len(children) :
            /\ children[i] = data
            /\ \A j \in 1..(i - 1) : children[j] # data
    ELSE 0

\* A SortedList.add that appends, leaving the list in arrival order.
SortedListAdd_Append(children, data) == Append(children, data)

\* SortedList.add(Node(data)): insert after the last child that is <= data
\* (BaseNode.__lt__), keeping the list in ascending order.
SortedListAdd(children, data) ==
    LET k == Cardinality({i \in 1..Len(children) : children[i] <= data})
    IN  SubSeq(children, 1, k) \o <<data>> \o SubSeq(children, k + 1, Len(children))

\* node.children.add(cls.Node(data)) on node p of trie t: the new node exists
\* and p's children list holds it.
AddChild(t, p, data) ==
    LET c == Append(p, data)
    IN  [q \in DOMAIN t \cup {c} |->
            IF q = c THEN Node(data)
            ELSE IF q = p
                 THEN [t[p] EXCEPT !.children = SortedListAdd(t[p].children, data)]
                 ELSE t[q]]

\* A step that never looks the child up and always creates a node.
NextNode_AlwaysNew(t, p, data) == <<AddChild(t, p, data), Append(p, data)>>

\* The node that _add/_assign steps to for element data: the child found by
\* index, or a new one.  The result is <<trie, path of nextnode>>.
NextNode(t, p, data) ==
    LET i == index(t[p].children, data)
    IN  IF i # 0
        THEN <<t, Append(p, t[p].children[i])>>
        ELSE <<AddChild(t, p, data), Append(p, data)>>

\* ------------------------------------------------------------- SetTrie

\* SetTrie._add(node, it): it holds the elements yet to consume.
RECURSIVE _add(_, _, _)
\* An _add that keeps only the end of a path terminal: it clears the flag of
\* every node it walks through.
_add_LeafOnly(t, p, it) ==
    IF it = << >>
    THEN [t EXCEPT ![p].flag_last = TRUE]
    ELSE LET nn == NextNode([t EXCEPT ![p].flag_last = FALSE], p, Head(it))
         IN  _add(nn[1], nn[2], Tail(it))

\* An _add that marks the node it stands on when it takes the last element,
\* and not the node that element leads to.
_add_FlagParent(t, p, it) ==
    IF it = << >>
    THEN [t EXCEPT ![p].flag_last = TRUE]
    ELSE LET nn == NextNode(t, p, Head(it))
         IN  IF Len(it) = 1
             THEN [nn[1] EXCEPT ![p].flag_last = TRUE]
             ELSE _add(nn[1], nn[2], Tail(it))

\* An _add that marks every node it walks through.
_add_MarkPath(t, p, it) ==
    IF it = << >>
    THEN [t EXCEPT ![p].flag_last = TRUE]
    ELSE LET nn == NextNode([t EXCEPT ![p].flag_last = TRUE], p, Head(it))
         IN  _add(nn[1], nn[2], Tail(it))

_add(t, p, it) ==
    IF it = << >>
    THEN [t EXCEPT ![p].flag_last = TRUE]
    ELSE LET nn == NextNode(t, p, Head(it))
         IN  _add(nn[1], nn[2], Tail(it))

\* SetTrie.add(aset)
add(t, aset) == _add(t, << >>, sorted(aset))

\* SetTrie._contains(node, it)
RECURSIVE _contains(_, _, _)
\* A _contains that accepts any node the walk ends at, terminal or not.
_contains_AnyNode(t, p, it) ==
    IF it = << >>
    THEN TRUE
    ELSE LET i == index(t[p].children, Head(it))
         IN  IF i = 0 THEN FALSE
             ELSE _contains(t, Append(p, t[p].children[i]), Tail(it))

_contains(t, p, it) ==
    IF it = << >>
    THEN t[p].flag_last
    ELSE LET i == index(t[p].children, Head(it))
         IN  IF i = 0 THEN FALSE
             ELSE _contains(t, Append(p, t[p].children[i]), Tail(it))

\* SetTrie.contains(aset), SetTrie.__contains__(aset)
contains(t, aset) == _contains(t, << >>, sorted(aset))

\* TypeError: 'NoneType' object is not iterable.  An enumeration that raises
\* it ends there: its sequence holds the exception in the place of the item.
\* Among the values of a 'values' enumeration it stands as it is, among the
\* pairs of a pairs enumeration in a tuple of its own.
TypeError == "TypeError"

Raise(mode) == IF mode = "values" THEN TypeError ELSE <<TypeError>>

\* Whether the enumeration s of a container of class cls ended by raising:
\* only a SetTrieMultiMap iterates a value field, and not in mode 'keys'.
Raised(cls, mode, s) ==
    /\ cls = "SetTrieMultiMap"
    /\ mode # "keys"
    /\ LET n == Len(s) IN n > 0 /\ s[n] = Raise(mode)

\* `yield from a` followed by `yield from b`: the exception a raises leaves
\* the generator, and b is never run.
YieldFrom(cls, mode, a, b) ==
    LET yielded == a
    IN  IF Raised(cls, mode, yielded) THEN yielded ELSE yielded \o b

\* The object a value field holds, as a traversal hands it out.
PyValue(value) == IF value = None THEN None ELSE value[1]

\* A _terminate whose SetTrieMultiMap values branch yields the first value
\* of the list alone.
_terminate_ValuesOnce(cls, node, path, mode) ==
    IF cls = "SetTrie" THEN <<set(path)>>
    ELSE IF cls = "SetTrieMap"
    THEN IF mode = "keys" THEN <<set(path)>>
         ELSE IF mode = "values" THEN <<PyValue(node.value)>>
         ELSE <<<<set(path), PyValue(node.value)>>>>
    ELSE IF mode = "keys" THEN <<set(path)>>
         ELSE IF node.value = None THEN <<Raise(mode)>>
         ELSE IF mode = "values" THEN <<node.value[1][1]>>
         ELSE [i \in 1..Len(node.value[1]) |-> <<set(path), node.value[1][i]>>]

\* SetTrie._terminate / SetTrieMap._terminate / SetTrieMultiMap._terminate:
\* what a terminal node emits, as the sequence of the items it yields.
\* A pair (set(path), value) is the tuple <<set(path), value>>.  A terminal
\* node of a SetTrieMultiMap whose value is None (the inherited add made it
\* terminal) raises TypeError in `yield from node.value` and in the list
\* comprehension over node.value.
_terminate(cls, node, path, mode) ==
    IF cls = "SetTrie" THEN <<set(path)>>
    ELSE IF cls = "SetTrieMap"
    THEN IF mode = "keys" THEN <<set(path)>>
         ELSE IF mode = "values" THEN <<PyValue(node.value)>>
         ELSE <<<<set(path), PyValue(node.value)>>>>
    ELSE IF mode = "keys" THEN <<set(path)>>
         ELSE IF node.value = None THEN <<Raise(mode)>>
         ELSE IF mode = "values" THEN node.value[1]
         ELSE [i \in 1..Len(node.value[1]) |-> <<set(path), node.value[1][i]>>]

\* SetTrie._iter(node, path, *args): pre-order traversal below node p.
\* _iterChildren is its `for child in node.children` loop from position i.
RECURSIVE _iter(_, _, _, _), _iterChildren(_, _, _, _, _)
_iter(cls, t, p, mode) ==
    YieldFrom(cls, mode,
              IF t[p].flag_last THEN _terminate(cls, t[p], p, mode) ELSE << >>,
              _iterChildren(cls, t, p, mode, 1))

_iterChildren(cls, t, p, mode, i) ==
    IF i > Len(t[p].children) THEN << >>
    ELSE YieldFrom(cls, mode,
                   _iter(cls, t, Append(p, t[p].children[i]), mode),
                   _iterChildren(cls, t, p, mode, i + 1))

\* SetTrie.__iter__ / SetTrie.iter / SetTrieMap.iter(mode)
iter(cls, t, mode) == _iter(cls, t, << >>, mode)

\* SetTrieMap.__iter__ / keys()
keys(cls, t) == iter(cls, t, "keys")

\* SetTrie._hassuperset(node, setarr, idx); idx counts from 0 as in the code.
\* _hassupersetLoop is its `for child in node.children` loop from position i.
RECURSIVE _hassuperset(_, _, _, _), _hassupersetLoop(_, _, _, _, _)
_hassuperset(t, p, setarr, idx) ==
    IF idx > Len(setarr) - 1 THEN TRUE
    ELSE _hassupersetLoop(t, p, setarr, idx, 1)

_hassupersetLoop(t, p, setarr, idx, i) ==
    IF i > Len(t[p].children) THEN FALSE
    ELSE LET data == t[p].children[i]
             child == Append(p, data)
         IN  IF data > setarr[idx + 1] THEN FALSE
             ELSE LET found == IF data = setarr[idx + 1]
                               THEN _hassuperset(t, child, setarr, idx + 1)
                               ELSE _hassuperset(t, child, setarr, idx)
                  IN  IF found THEN TRUE
                      ELSE _hassupersetLoop(t, p, setarr, idx, i + 1)

\* SetTrie.hassuperset(aset)
hassuperset(t, aset) == _hassuperset(t, << >>, sorted(aset), 0)

\* SetTrie._itersupersets(node, setarr, path, *args)
\* _itersupersetsLoop is the loop of its `if setarr:` branch from position i.
RECURSIVE _itersupersets(_, _, _, _, _), _itersupersetsLoop(_, _, _, _, _, _)
\* A loop that drops the current query element on a smaller child too.
_itersupersetsLoop_AlwaysConsume(cls, t, p, setarr, mode, i) ==
    IF i > Len(t[p].children) THEN << >>
    ELSE LET data == t[p].children[i]
             child == Append(p, data)
             current == setarr[1]
         IN  IF data <= current
             THEN YieldFrom(cls, mode,
                            _itersupersets(cls, t, child, Tail(setarr), mode),
                            _itersupersetsLoop(cls, t, p, setarr, mode, i + 1))
             ELSE << >>

_itersupersets(cls, t, p, setarr, mode) ==
    IF setarr # << >>
    THEN _itersupersetsLoop(cls, t, p, setarr, mode, 1)
    ELSE YieldFrom(cls, mode,
                   IF t[p].flag_last THEN _terminate(cls, t[p], p, mode) ELSE << >>,
                   _iterChildren(cls, t, p, mode, 1))

_itersupersetsLoop(cls, t, p, setarr, mode, i) ==
    IF i > Len(t[p].children) THEN << >>
    ELSE LET data == t[p].children[i]
             child == Append(p, data)
             current == setarr[1]
         IN  IF data < current
             THEN YieldFrom(cls, mode,
                            _itersupersets(cls, t, child, setarr, mode),
                            _itersupersetsLoop(cls, t, p, setarr, mode, i + 1))
             ELSE IF data = current
             THEN YieldFrom(cls, mode,
                            _itersupersets(cls, t, child, Tail(setarr), mode),
                            _itersupersetsLoop(cls, t, p, setarr, mode, i + 1))
             ELSE << >>

\* SetTrie.supersets(aset) / SetTrieMap.supersets(aset, mode)
supersets(cls, t, aset, mode) == _itersupersets(cls, t, << >>, sorted(aset), mode)

\* SetTrie._hassubset(node, setarr, idx)
RECURSIVE _hassubset(_, _, _, _)
\* A _hassubset that answers True once the query is used up.
_hassubset_EndTrue(t, p, setarr, idx) ==
    IF t[p].flag_last THEN TRUE
    ELSE IF idx > Len(setarr) - 1 THEN TRUE
    ELSE LET c == index(t[p].children, setarr[idx + 1])
             found == IF c = 0 THEN FALSE
                      ELSE _hassubset(t, Append(p, t[p].children[c]), setarr, idx + 1)
         IN  IF ~found THEN _hassubset(t, p, setarr, idx + 1)
             ELSE TRUE

\* A _hassubset that never skips a query element: without the retry at
\* idx + 1 when the matching child is absent or leads nowhere.
_hassubset_NoSkip(t, p, setarr, idx) ==
    IF t[p].flag_last THEN TRUE
    ELSE IF idx > Len(setarr) - 1 THEN FALSE
    ELSE LET c == index(t[p].children, setarr[idx + 1])
         IN  IF c = 0 THEN FALSE
             ELSE _hassubset(t, Append(p, t[p].children[c]), setarr, idx + 1)

_hassubset(t, p, setarr, idx) ==
    IF t[p].flag_last THEN TRUE
    ELSE IF idx > Len(setarr) - 1 THEN FALSE
    ELSE LET c == index(t[p].children, setarr[idx + 1])
             found == IF c = 0 THEN FALSE
                      ELSE _hassubset(t, Append(p, t[p].children[c]), setarr, idx + 1)
         IN  IF ~found THEN _hassubset(t, p, setarr, idx + 1)
             ELSE TRUE

\* SetTrie.hassubset(aset)
hassubset(t, aset) == _hassubset(t, << >>, sorted(aset), 0)

\* SetTrie._itersubsets(node, setarr, path, *args): setarr is the query as
\* the caller passed it, used for `child.data in setarr`.
\* _itersubsetsLoop is its `for child in node.children` loop from position i.
RECURSIVE _itersubsets(_, _, _, _, _), _itersubsetsLoop(_, _, _, _, _, _)
\* A loop that descends into every child, without `child.data in setarr`.
_itersubsetsLoop_NoFilter(cls, t, p, setarr, mode, i) ==
    IF i > Len(t[p].children) THEN << >>
    ELSE YieldFrom(cls, mode,
                   _itersubsets(cls, t, Append(p, t[p].children[i]), setarr, mode),
                   _itersubsetsLoop(cls, t, p, setarr, mode, i + 1))

_itersubsets(cls, t, p, setarr, mode) ==
    YieldFrom(cls, mode,
              IF t[p].flag_last THEN _terminate(cls, t[p], p, mode) ELSE << >>,
              _itersubsetsLoop(cls, t, p, setarr, mode, 1))

_itersubsetsLoop(cls, t, p, setarr, mode, i) ==
    IF i > Len(t[p].children) THEN << >>
    ELSE LET data == t[p].children[i]
         IN  YieldFrom(cls, mode,
                       IF data \in setarr
                       THEN _itersubsets(cls, t, Append(p, data), setarr, mode)
                       ELSE << >>,
                       _itersubsetsLoop(cls, t, p, setarr, mode, i + 1))

\* SetTrie.subsets(aset) / SetTrieMap.subsets(aset, mode)
subsets(cls, t, aset, mode) == _itersubsets(cls, t, << >>, aset, mode)

\* ------------------------------------------------------------- SetTrieMap

\* SetTrieMap._assign(node, it, val)
RECURSIVE SetTrieMap_assign(_, _, _, _)
\* An _assign that keeps the value a terminal node already holds.
SetTrieMap_assign_KeepFirst(t, p, it, val) ==
    IF it = << >>
    THEN IF t[p].flag_last THEN t
         ELSE [t EXCEPT ![p].flag_last = TRUE, ![p].value = Some(val)]
    ELSE LET nn == NextNode(t, p, Head(it))
         IN  SetTrieMap_assign(nn[1], nn[2], Tail(it), val)

\* An _assign that writes the value into every node it walks through.
SetTrieMap_assign_ValuePath(t, p, it, val) ==
    IF it = << >>
    THEN [t EXCEPT ![p].flag_last = TRUE, ![p].value = Some(val)]
    ELSE LET nn == NextNode([t EXCEPT ![p].value = Some(val)], p, Head(it))
         IN  SetTrieMap_assign(nn[1], nn[2], Tail(it), val)

SetTrieMap_assign(t, p, it, val) ==
    IF it = << >>
    THEN [t EXCEPT ![p].flag_last = TRUE, ![p].value = Some(val)]
    ELSE LET nn == NextNode(t, p, Head(it))
         IN  SetTrieMap_assign(nn[1], nn[2], Tail(it), val)

\* SetTrieMap.assign(akey, avalue)
SetTrieMap_assign_pub(t, akey, avalue) ==
    SetTrieMap_assign(t, << >>, sorted(akey), avalue)

\* SetTrieMap._get(node, it, default)
RECURSIVE _get(_, _, _, _)
_get(t, p, it, default) ==
    IF it = << >>
    THEN (IF t[p].flag_last THEN t[p].value ELSE default)
    ELSE LET i == index(t[p].children, Head(it))
         IN  IF i = 0 THEN default
             ELSE _get(t, Append(p, t[p].children[i]), Tail(it), default)

\* SetTrieMap.get(keyset, default): the value field of the node (None or
\* <<x>>), or default.
get(t, keyset, default) == _get(t, << >>, sorted(keyset), default)

\* ------------------------------------------------------------- SetTrieMultiMap

\* SetTrieMultiMap._assign(node, it, val, valcnt): <<trie, valcnt[0]>>.
RECURSIVE SetTrieMultiMap_assign(_, _, _, _)
\* An _assign that starts a new list on every call.
SetTrieMultiMap_assign_NewList(t, p, it, val) ==
    IF it = << >>
    THEN << [t EXCEPT ![p].flag_last = TRUE, ![p].value = Some(<<val>>)], 1 >>
    ELSE LET nn == NextNode(t, p, Head(it))
         IN  SetTrieMultiMap_assign(nn[1], nn[2], Tail(it), val)

SetTrieMultiMap_assign(t, p, it, val) ==
    IF it = << >>
    THEN LET list == IF t[p].value = None THEN << >> ELSE t[p].value[1]
             value == Append(list, val)
         IN  << [t EXCEPT ![p].flag_last = TRUE, ![p].value = Some(value)],
                Len(value) >>
    ELSE LET nn == NextNode(t, p, Head(it))
         IN  SetTrieMultiMap_assign(nn[1], nn[2], Tail(it), val)

\* SetTrieMultiMap.assign(akey, avalue): <<trie, returned count>>.
SetTrieMultiMap_assign_pub(t, akey, avalue) ==
    SetTrieMultiMap_assign(t, << >>, sorted(akey), avalue)

\* SetTrieMultiMap._count(node, it)
RECURSIVE _count(_, _, _)
_count(t, p, it) ==
    IF it = << >>
    THEN (IF t[p].flag_last /\ t[p].value # None THEN Len(t[p].value[1]) ELSE 0)
    ELSE LET i == index(t[p].children, Head(it))
         IN  IF i = 0 THEN 0
             ELSE _count(t, Append(p, t[p].children[i]), Tail(it))

\* SetTrieMultiMap.count(keyset)
count(t, keyset) == _count(t, << >>, sorted(keyset))

\* SetTrieMultiMap._iterget(node, it): the sequence of the values it yields.
\* `yield from node.value` raises TypeError on a terminal node whose value
\* is None.
RECURSIVE _iterget(_, _, _)
_iterget(t, p, it) ==
    IF it = << >>
    THEN (IF ~t[p].flag_last THEN << >>
          ELSE IF t[p].value = None THEN <<TypeError>>
          ELSE t[p].value[1])
    ELSE LET i == index(t[p].children, Head(it))
         IN  IF i = 0 THEN << >>
             ELSE _iterget(t, Append(p, t[p].children[i]), Tail(it))

\* SetTrieMultiMap.iterget(keyset)
iterget(t, keyset) == _iterget(t, << >>, sorted(keyset))

\* ------------------------------------------------------------- machine

\* The constructor, with no iterable: the root node alone.
Init ==
    /\ kind \in Kinds
    /\ nodes = [p \in {<< >>} |-> Node(None)]
    /\ assigned = [K \in Sets |-> << >>]
    /\ nops = 0
    /\ ret = None
    /\ qret = None
    /\ its = [k \in IterIds |-> None]

\* t.add(aset) on a SetTrie, and on a SetTrieMap or SetTrieMultiMap, which
\* inherit add unchanged: the node at the end of the path becomes terminal
\* and its value stays as it is.  The history records None as the value.
Add(aset) ==
    /\ nops < MaxOps
    /\ nodes' = add(nodes, aset)
    /\ assigned' = [assigned EXCEPT ![aset] = Append(@, None)]
    /\ ret' = None
    /\ qret' = None
    /\ nops' = nops + 1
    /\ UNCHANGED <<kind, its>>

\* m.assign(akey, avalue) on a SetTrieMap
MapAssign(akey, avalue) ==
    /\ kind = "SetTrieMap"
    /\ nops < MaxOps
    /\ nodes' = SetTrieMap_assign_pub(nodes, akey, avalue)
    /\ assigned' = [assigned EXCEPT ![akey] = Append(@, avalue)]
    /\ ret' = None
    /\ qret' = None
    /\ nops' = nops + 1
    /\ UNCHANGED <<kind, its>>

\* m.assign(akey, avalue) on a SetTrieMultiMap
MultiMapAssign(akey, avalue) ==
    /\ kind = "SetTrieMultiMap"
    /\ nops < MaxOps
    /\ LET r == SetTrieMultiMap_assign_pub(nodes, akey, avalue)
       IN  /\ nodes' = r[1]
           /\ ret' = Some(r[2])
    /\ assigned' = [assigned EXCEPT ![akey] = Append(@, avalue)]
    /\ qret' = None
    /\ nops' = nops + 1
    /\ UNCHANGED <<kind, its>>

Next ==
    \/ \E aset \in Sets : Add(aset)
    \/ \E akey \in Sets, avalue \in Values : MapAssign(akey, avalue)
    \/ \E akey \in Sets, avalue \in Values : MultiMapAssign(akey, avalue)

\* A container of any of the three classes.
Spec == Init /\ [][Next]_vars

\* A SetTrie: the states a sequence of add calls reaches.
InitSetTrie == Init /\ kind = "SetTrie"

NextSetTrie == \E aset \in Sets : Add(aset)

SpecSetTrie == InitSetTrie /\ [][NextSetTrie]_vars

\* A SetTrieMap: the states a sequence of assign calls reaches.
InitMap == Init /\ kind = "SetTrieMap"

NextMap == \E akey \in Sets, avalue \in Values : MapAssign(akey, avalue)

SpecMap == InitMap /\ [][NextMap]_vars

\* A SetTrieMultiMap: the states a sequence of assign calls reaches.
InitMultiMap == Init /\ kind = "SetTrieMultiMap"

NextMultiMap == \E akey \in Sets, avalue \in Values : MultiMapAssign(akey, avalue)

SpecMultiMap == InitMultiMap /\ [][NextMultiMap]_vars

\* A SetTrieMap or a SetTrieMultiMap: the states a sequence of assign calls
\* and calls of the inherited add reaches.
InitMaps == Init /\ kind \in {"SetTrieMap", "SetTrieMultiMap"}

NextMaps ==
    \/ \E aset \in Sets : Add(aset)
    \/ \E akey \in Sets, avalue \in Values : MapAssign(akey, avalue)
    \/ \E akey \in Sets, avalue \in Values : MultiMapAssign(akey, avalue)

SpecMaps == InitMaps /\ [][NextMaps]_vars

\* A SetTrieMap or a SetTrieMultiMap that is filled by MaxIterOps add/assign
\* calls at most.
SmallAdd(aset) ==
    /\ nops < MaxIterOps
    /\ Add(aset)

SmallMapAssign(akey, avalue) ==
    /\ nops < MaxIterOps
    /\ MapAssign(akey, avalue)

SmallMultiMapAssign(akey, avalue) ==
    /\ nops < MaxIterOps
    /\ MultiMapAssign(akey, avalue)

NextSmallMaps ==
    \/ \E aset \in Sets : SmallAdd(aset)
    \/ \E akey \in Sets, avalue \in Values : SmallMapAssign(akey, avalue)
    \/ \E akey \in Sets, avalue \in Values : SmallMultiMapAssign(akey, avalue)

SpecSmallMaps == InitMaps /\ [][NextSmallMaps]_vars

\* A container of any of the three classes that is filled by MaxIterOps
\* add/assign calls at most.
SpecSmall == Init /\ [][NextSmallMaps]_vars

\* A SetTrie filled by add, or a SetTrieMap filled by assign and add, in
\* MaxIterOps calls.
InitAddAssign == Init /\ kind \in {"SetTrie", "SetTrieMap"}

NextAddAssign ==
    \/ \E aset \in Sets : SmallAdd(aset)
    \/ \E akey \in Sets, avalue \in Values : SmallMapAssign(akey, avalue)

SpecAddAssign == InitAddAssign /\ [][NextAddAssign]_vars

\* ------------------------------------------------------------- iterables

\* sorted(aset) for an argument that is a list: every item of it, in
\* ascending order, an item as many times as the list holds it.
RECURSIVE sortedList(_)
sortedList(alist) ==
    IF alist = << >> THEN << >>
    ELSE LET m == CHOOSE i \in 1..Len(alist) :
                    \A j \in 1..Len(alist) : alist[i] <= alist[j]
         IN  <<alist[m]>> \o sortedList(SubSeq(alist, 1, m - 1) \o
                                         SubSeq(alist, m + 1, Len(alist)))

\* SetTrie.add(aset), aset a list
addList(t, alist) == _add(t, << >>, sortedList(alist))

\* SetTrieMap.assign(akey, avalue), akey a list
SetTrieMap_assignList(t, akey, avalue) ==
    SetTrieMap_assign(t, << >>, sortedList(akey), avalue)

\* t.add(alist) on a container of any class (the maps inherit add).  The
\* history records the call under the set of the list's items.
AddList(alist) ==
    /\ nops < MaxIterOps
    /\ nodes' = addList(nodes, alist)
    /\ assigned' = [assigned EXCEPT ![set(alist)] = Append(@, None)]
    /\ ret' = None
    /\ qret' = None
    /\ nops' = nops + 1
    /\ UNCHANGED <<kind, its>>

\* m.assign(alist, avalue) on a SetTrieMap
MapAssignList(akey, avalue) ==
    /\ kind = "SetTrieMap"
    /\ nops < MaxIterOps
    /\ nodes' = SetTrieMap_assignList(nodes, akey, avalue)
    /\ assigned' = [assigned EXCEPT ![set(akey)] = Append(@, avalue)]
    /\ ret' = None
    /\ qret' = None
    /\ nops' = nops + 1
    /\ UNCHANGED <<kind, its>>

\* A SetTrie or a SetTrieMap whose callers pass lists, and call the add that
\* the map inherits; MaxIterOps calls are made at most.
NextLists ==
    \/ \E alist \in Lists : AddList(alist)
    \/ \E akey \in Lists, avalue \in Values : MapAssignList(akey, avalue)

SpecLists == InitAddAssign /\ [][NextLists]_vars

\* ------------------------------------------------------------- queries

\* What a query call leaves alone: it assigns no field of any node and
\* passes nothing to add/assign.  qret holds the result of the last query
\* until the next add/assign call; no query reads it, so the queries are
\* taken from the states in which it holds none (every state a query call
\* can lead to is reached that way).
QueryFrame ==
    /\ qret = None
    /\ UNCHANGED <<kind, nodes, assigned, nops, ret, its>>

\* A lookup that finds its way as _add does, creating the nodes it misses.
RECURSIVE _lookupCreating(_, _, _)
_lookupCreating(t, p, it) ==
    IF it = << >> THEN t
    ELSE LET nn == NextNode(t, p, Head(it))
         IN  _lookupCreating(nn[1], nn[2], Tail(it))

\* A contains call that walks the trie with that lookup.
Contains_Creating(aset) ==
    /\ qret = None
    /\ qret' = <<"contains", contains(nodes, aset)>>
    /\ nodes' = _lookupCreating(nodes, << >>, sorted(aset))
    /\ UNCHANGED <<kind, assigned, nops, ret, its>>

\* t.contains(aset), aset in t
Contains(aset) ==
    /\ QueryFrame
    /\ qret' = <<"contains", contains(nodes, aset)>>

\* t.hassuperset(aset)
HasSuperset(aset) ==
    /\ QueryFrame
    /\ qret' = <<"hassuperset", hassuperset(nodes, aset)>>

\* t.hassubset(aset)
HasSubset(aset) ==
    /\ QueryFrame
    /\ qret' = <<"hassubset", hassubset(nodes, aset)>>

\* t.supersets(aset), m.supersets(aset, mode): list(itersupersets(...)).
\* A SetTrie takes no mode.
Supersets(aset, mode) ==
    /\ QueryFrame
    /\ kind = "SetTrie" => mode = "None"
    /\ qret' = <<"supersets", supersets(kind, nodes, aset, mode)>>

\* t.subsets(aset), m.subsets(aset, mode): list(itersubsets(...))
Subsets(aset, mode) ==
    /\ QueryFrame
    /\ kind = "SetTrie" => mode = "None"
    /\ qret' = <<"subsets", subsets(kind, nodes, aset, mode)>>

\* t.aslist(), m.aslist(): list(iter()); list(m.iter(mode))
AsList(mode) ==
    /\ QueryFrame
    /\ kind = "SetTrie" => mode = "None"
    /\ qret' = <<"aslist", iter(kind, nodes, mode)>>

\* m.get(keyset, default) on a SetTrieMap or SetTrieMultiMap
Get(keyset, default) ==
    /\ QueryFrame
    /\ kind # "SetTrie"
    /\ qret' = <<"get", get(nodes, keyset, default)>>

\* m.count(keyset) on a SetTrieMultiMap
Count(keyset) ==
    /\ QueryFrame
    /\ kind = "SetTrieMultiMap"
    /\ qret' = <<"count", count(nodes, keyset)>>

\* list(m.iterget(keyset)) on a SetTrieMultiMap
IterGet(keyset) ==
    /\ QueryFrame
    /\ kind = "SetTrieMultiMap"
    /\ qret' = <<"iterget", iterget(nodes, keyset)>>

\* A container of any of the three classes that is filled and queried.
QueryMutate ==
    /\ nops < MaxQueryOps
    /\ Next

NextQuery ==
    \/ QueryMutate
    \/ \E aset \in Sets : Contains(aset)
    \/ \E aset \in Sets : HasSuperset(aset)
    \/ \E aset \in Sets : HasSubset(aset)
    \/ \E aset \in Sets, mode \in Modes : Supersets(aset, mode)
    \/ \E aset \in Sets, mode \in Modes : Subsets(aset, mode)
    \/ \E mode \in Modes : AsList(mode)
    \/ \E keyset \in Sets, default \in Defaults : Get(keyset, default)
    \/ \E keyset \in Sets : Count(keyset)
    \/ \E keyset \in Sets : IterGet(keyset)

SpecQuery == Init /\ [][NextQuery]_vars

\* ------------------------------------------------------------- iterators

\* A generator object is the stack of its suspended frames, innermost last,
\* and the path list its invocation created.  A frame of _itersupersets,
\* _itersubsets or _iter holds its node and setarr arguments and where it
\* stands: pc = "start" before path.append, "term" in the `yield from
\* cls._terminate(...)` with k items yielded (items the list it goes through,
\* when that is not the node's own value list), "loop" in the `for child in
\* node.children` loop with i the position of the next child (the filtering
\* loop of _itersupersets if its setarr is not empty).  A frame of _iterget
\* holds its node and what is left of the shared iterator `it` after its own
\* next(it); it is suspended (pc = "from") in `yield from cls._iterget(
\* matchnode, it)`, or (pc = "value") in `yield from node.value` with k
\* values yielded.
Frame(fn, node, setarr) ==
    [fn |-> fn, node |-> node, setarr |-> setarr, pc |-> "start", i |-> 1, k |-> 0,
     items |-> << >>]

\* Whether a suspended _terminate iterates the value list of the node itself
\* (`yield from node.value`, mode 'values' of a SetTrieMultiMap), so that a
\* value appended meanwhile is yielded in its turn.  In every other case
\* what it yields was built when it started: the one item, or the list of
\* pairs `[(set(path), val) for val in node.value]`, which the frame keeps.
IteratesValueList(cls, mode) == cls = "SetTrieMultiMap" /\ mode = "values"

\* The items of the `yield from cls._terminate(...)` in which frame f stands:
\* at its start (k = 0) what _terminate gives on the node as it is, or
\* nothing for a node that is not terminal; later the value list as it is
\* now, or the list the frame keeps.
TerminateItems(cls, t, mode, f, path) ==
    IF f.k = 0
    THEN (IF t[f.node].flag_last
          THEN _terminate(cls, t[f.node], Tail(path), mode) ELSE << >>)
    ELSE IF IteratesValueList(cls, mode) THEN t[f.node].value[1]
    ELSE f.items

\* itersupersets(aset[, mode]), itersubsets(aset[, mode]), iter([mode]) /
\* __iter__(), iterget(keyset): the generator as the call returns it, no
\* line of it run yet.
\* q = <<which, aset, mode>> keeps the arguments of the invocation, out the
\* items it has yielded, done whether it has raised StopIteration.
NewGenerator(which, aset, mode) ==
    [q |-> <<which, aset, mode>>,
     stack |-> IF which = "supersets"
               THEN <<Frame("_itersupersets", << >>, sorted(aset))>>
               ELSE IF which = "subsets"
               THEN <<Frame("_itersubsets", << >>, aset)>>
               ELSE IF which = "iterget"
               THEN <<Frame("_iterget", << >>, sorted(aset))>>
               ELSE <<Frame("_iter", << >>, << >>)>>,
     path |-> << >>,
     out |-> << >>,
     done |-> FALSE]

\* next() of an iterget generator.  The first next() walks from the root to
\* the node of the key in the trie as it is then, a frame per level; a child
\* that is missing, or a node that is not terminal, ends the generator.  At
\* the node, `yield from node.value` iterates the list object itself: next()
\* yields the item at position k of the list as it is at that moment, values
\* appended by later assign calls included, and ends the generator when
\* there is none.  A value that is None raises TypeError, which ends the
\* generator too.
RECURSIVE _itergetResume(_, _, _)
_itergetResume(t, stack, path) ==
    LET n == Len(stack)
        f == stack[n]
        node == t[f.node]
        finished == [stack |-> << >>, path |-> path, item |-> None]
    IN  IF f.pc = "start" /\ f.setarr # << >>
        THEN LET i == index(node.children, Head(f.setarr))
             IN  IF i = 0 THEN finished
                 ELSE _itergetResume(t,
                          Append([stack EXCEPT ![n].pc = "from"],
                                 Frame("_iterget", Append(f.node, node.children[i]),
                                       Tail(f.setarr))),
                          path)
        ELSE IF f.pc = "start"
        THEN IF ~node.flag_last THEN finished
             ELSE IF node.value = None
             THEN [stack |-> << >>, path |-> path, item |-> Some(TypeError)]
             ELSE _itergetResume(t, [stack EXCEPT ![n].pc = "value"], path)
        ELSE IF f.k < Len(node.value[1])
        THEN [stack |-> [stack EXCEPT ![n].k = f.k + 1],
              path |-> path,
              item |-> Some(node.value[1][f.k + 1])]
        ELSE finished

\* Whether `yield from cls._terminate(node, ...)` raises: a SetTrieMultiMap
\* node without a value list, in a mode that iterates the values.
TerminateRaises(cls, node, mode) ==
    cls = "SetTrieMultiMap" /\ mode # "keys" /\ node.value = None

\* next(generator): run the innermost frame on until an item is yielded
\* (item = <<x>>) or the outermost frame returns (item = None).  An
\* exception is handed out as the item and leaves no frame.
RECURSIVE Resume(_, _, _, _, _)
\* A generator whose frames return without path.pop().
Resume_NoPop(cls, t, mode, stack, path) ==
    IF stack = << >> THEN [stack |-> stack, path |-> path, item |-> None]
    ELSE
    LET n == Len(stack)
        f == stack[n]
        node == t[f.node]
        filtering == f.fn = "_itersupersets" /\ f.setarr # << >>
    IN  IF f.fn = "_iterget" THEN _itergetResume(t, stack, path)
        ELSE IF f.pc = "start"
        THEN Resume(cls, t, mode,
                    [stack EXCEPT ![n].pc = IF filtering THEN "loop" ELSE "term"],
                    Append(path, node.data))
        ELSE IF f.pc = "term"
        THEN LET items == TerminateItems(cls, t, mode, f, path)
             IN  IF f.k = 0 /\ node.flag_last /\ TerminateRaises(cls, node, mode)
                 THEN [stack |-> << >>, path |-> path, item |-> Some(items[1])]
                 ELSE IF f.k < Len(items)
                 THEN [stack |-> [stack EXCEPT
                                    ![n].k = f.k + 1,
                                    ![n].items = IF IteratesValueList(cls, mode)
                                                 THEN << >> ELSE items],
                       path |-> path,
                       item |-> Some(items[f.k + 1])]
                 ELSE Resume(cls, t, mode,
                             [stack EXCEPT ![n].pc = "loop", ![n].items = << >>],
                             path)
        ELSE IF f.i > Len(node.children)
        THEN Resume(cls, t, mode, SubSeq(stack, 1, n - 1), path)
        ELSE
        LET data == node.children[f.i]
            child == Append(f.node, data)
            advanced == [stack EXCEPT ![n].i = f.i + 1]
        IN  IF filtering
            THEN IF data < f.setarr[1]
                 THEN Resume(cls, t, mode,
                             Append(advanced, Frame("_itersupersets", child, f.setarr)),
                             path)
                 ELSE IF data = f.setarr[1]
                 THEN Resume(cls, t, mode,
                             Append(advanced,
                                    Frame("_itersupersets", child, Tail(f.setarr))),
                             path)
                 ELSE Resume(cls, t, mode,
                             [stack EXCEPT ![n].i = Len(node.children) + 1], path)
            ELSE IF f.fn = "_itersubsets"
            THEN IF data \in f.setarr
                 THEN Resume(cls, t, mode,
                             Append(advanced, Frame("_itersubsets", child, f.setarr)),
                             path)
                 ELSE Resume(cls, t, mode, advanced, path)
            ELSE Resume(cls, t, mode, Append(advanced, Frame("_iter", child, << >>)),
                        path)

Resume(cls, t, mode, stack, path) ==
    IF stack = << >> THEN [stack |-> stack, path |-> path, item |-> None]
    ELSE
    LET n == Len(stack)
        f == stack[n]
        node == t[f.node]
        filtering == f.fn = "_itersupersets" /\ f.setarr # << >>
    IN  IF f.fn = "_iterget" THEN _itergetResume(t, stack, path)
        ELSE IF f.pc = "start"
        THEN Resume(cls, t, mode,
                    [stack EXCEPT ![n].pc = IF filtering THEN "loop" ELSE "term"],
                    Append(path, node.data))
        ELSE IF f.pc = "term"
        THEN LET items == TerminateItems(cls, t, mode, f, path)
             IN  IF f.k = 0 /\ node.flag_last /\ TerminateRaises(cls, node, mode)
                 THEN [stack |-> << >>, path |-> path, item |-> Some(items[1])]
                 ELSE IF f.k < Len(items)
                 THEN [stack |-> [stack EXCEPT
                                    ![n].k = f.k + 1,
                                    ![n].items = IF IteratesValueList(cls, mode)
                                                 THEN << >> ELSE items],
                       path |-> path,
                       item |-> Some(items[f.k + 1])]
                 ELSE Resume(cls, t, mode,
                             [stack EXCEPT ![n].pc = "loop", ![n].items = << >>],
                             path)
        ELSE IF f.i > Len(node.children)
        THEN Resume(cls, t, mode, SubSeq(stack, 1, n - 1),
                    SubSeq(path, 1, Len(path) - 1))
        ELSE
        LET data == node.children[f.i]
            child == Append(f.node, data)
            advanced == [stack EXCEPT ![n].i = f.i + 1]
        IN  IF filtering
            THEN IF data < f.setarr[1]
                 THEN Resume(cls, t, mode,
                             Append(advanced, Frame("_itersupersets", child, f.setarr)),
                             path)
                 ELSE IF data = f.setarr[1]
                 THEN Resume(cls, t, mode,
                             Append(advanced,
                                    Frame("_itersupersets", child, Tail(f.setarr))),
                             path)
                 ELSE Resume(cls, t, mode,
                             [stack EXCEPT ![n].i = Len(node.children) + 1], path)
            ELSE IF f.fn = "_itersubsets"
            THEN IF data \in f.setarr
                 THEN Resume(cls, t, mode,
                             Append(advanced, Frame("_itersubsets", child, f.setarr)),
                             path)
                 ELSE Resume(cls, t, mode, advanced, path)
            ELSE Resume(cls, t, mode, Append(advanced, Frame("_iter", child, << >>)),
                        path)

\* it = t.itersupersets(aset) / t.itersubsets(aset) / iter(t) on a SetTrie
\* (no mode): the caller takes iterator k.  The iterators it holds at a time
\* come from invocations with equal arguments.
Invoke(k, which, aset) ==
    /\ kind = "SetTrie"
    /\ its[k] = None
    /\ which = "iter" => aset = {}
    /\ \A j \in IterIds : its[j] # None => its[j][1].q = <<which, aset, "None">>
    /\ its' = [its EXCEPT ![k] = Some(NewGenerator(which, aset, "None"))]
    /\ UNCHANGED <<kind, nodes, assigned, nops, ret, qret>>

\* g = m.iterget(keyset) on a SetTrieMultiMap: the caller takes iterator k.
\* The call runs no line of _iterget; the container can be changed while the
\* caller holds the generator.
InvokeIterGet(k, keyset) ==
    /\ kind = "SetTrieMultiMap"
    /\ its[k] = None
    /\ its' = [its EXCEPT ![k] = Some(NewGenerator("iterget", keyset, "None"))]
    /\ UNCHANGED <<kind, nodes, assigned, nops, ret, qret>>

\* next(it) on iterator k, until it has raised StopIteration
Advance(k) ==
    /\ its[k] # None
    /\ ~its[k][1].done
    /\ LET g == its[k][1]
           r == Resume(kind, nodes, g.q[3], g.stack, g.path)
       IN  its' = [its EXCEPT ![k] = Some(
                      [g EXCEPT !.stack = r.stack,
                                !.path = r.path,
                                !.out = IF r.item = None THEN @ ELSE Append(@, r.item[1]),
                                !.done = (r.item = None)])]
    /\ UNCHANGED <<kind, nodes, assigned, nops, ret, qret>>

\* t.add(aset) while the caller holds no iterator
IterAdd(aset) ==
    /\ nops < MaxIterOps
    /\ \A k \in IterIds : its[k] = None
    /\ Add(aset)

NextIter ==
    \/ \E aset \in Sets : IterAdd(aset)
    \/ \E k \in IterIds, which \in {"supersets", "subsets", "iter"}, aset \in Sets :
          Invoke(k, which, aset)
    \/ \E k \in IterIds : Advance(k)

\* A SetTrie that is filled and then enumerated by up to two iterators,
\* advanced in any interleaving.
SpecIter == InitSetTrie /\ [][NextIter]_vars

NextIterGet ==
    \/ \E aset \in Sets : SmallAdd(aset)
    \/ \E akey \in Sets, avalue \in Values : SmallMultiMapAssign(akey, avalue)
    \/ \E keyset \in Sets : InvokeIterGet(1, keyset)
    \/ Advance(1)

\* A SetTrieMultiMap whose caller takes one iterget generator at some point
\* and advances it item by item, between add/assign calls or after them.
SpecIterGet == InitMultiMap /\ [][NextIterGet]_vars

\* g = m.itersupersets(aset, mode) / m.itersubsets(aset, mode) / m.iter(mode)
\* on a SetTrieMap or a SetTrieMultiMap: the caller takes iterator k.
InvokeMode(k, which, aset, mode) ==
    /\ kind # "SetTrie"
    /\ its[k] = None
    /\ which = "iter" => aset = {}
    /\ its' = [its EXCEPT ![k] = Some(NewGenerator(which, aset, mode))]
    /\ UNCHANGED <<kind, nodes, assigned, nops, ret, qret>>

NextIterMaps ==
    \/ \E aset \in Sets : SmallAdd(aset)
    \/ \E akey \in Sets, avalue \in Values : SmallMapAssign(akey, avalue)
    \/ \E akey \in Sets, avalue \in Values : SmallMultiMapAssign(akey, avalue)
    \/ \E which \in {"supersets", "subsets", "iter"}, aset \in Sets, mode \in Modes :
          InvokeMode(1, which, aset, mode)
    \/ Advance(1)

\* A SetTrieMap or a SetTrieMultiMap whose caller takes one enumeration at
\* some point and advances it item by item, between add/assign calls or
\* after them.
SpecIterMaps == InitMaps /\ [][NextIterMaps]_vars

\* ------------------------------------------------------------- printtree

\* The type of the set elements a caller uses: element n of the model is the
\* int n, or the str made of the n-th lowercase letter (the order is the
\* same; MaxElem is at most the length of Letters).
ElemTypes == {"int", "str"}

Letters == <<"a", "b", "c", "d", "e", "f", "g", "h", "i">>

\* str(node.data) and repr(node.data).  None is the data of the root alone:
\* every other node is made by cls.Node(data) with an element.
str(etype, t, p) ==
    IF p = << >> THEN "None"
    ELSE IF etype = "int" THEN ToString(t[p].data)
    ELSE Letters[t[p].data]

repr(etype, t, p) ==
    IF p = << >> THEN "None"
    ELSE IF etype = "int" THEN ToString(t[p].data)
    ELSE "'" \o Letters[t[p].data] \o "'"

\* repr(node.value): of None, of a str payload, of a list of str payloads.
RECURSIVE reprItems(_)
reprItems(list) ==
    IF list = << >> THEN ""
    ELSE IF Len(list) = 1 THEN "'" \o list[1] \o "'"
    ELSE "'" \o list[1] \o "', " \o reprItems(Tail(list))

reprValue(cls, value) ==
    IF value = None THEN "None"
    ELSE IF cls = "SetTrieMultiMap" THEN "[" \o reprItems(value[1]) \o "]"
    ELSE "'" \o value[1] \o "'"

\* n copies of a character, and s.rjust(width, fillchar).
RECURSIVE Copies(_, _)
Copies(n, chr) == IF n <= 0 THEN "" ELSE chr \o Copies(n - 1, chr)

rjust(s, width, fillchar) == Copies(width - Len(s), fillchar) \o s

\* SetTrie._printtree / SetTrieMap._printtree / SetTrieMultiMap._printtree
\* (node, level, tabchr, tabsize, stream): the lines it prints to stream.
\* _printtreeChildren is its `for child in node.children` loop from
\* position i.
RECURSIVE _printtree(_, _, _, _, _, _, _), _printtreeChildren(_, _, _, _, _, _, _, _)
_printtree(cls, etype, t, p, level, tabchr, tabsize) ==
    << rjust(str(etype, t, p), Len(repr(etype, t, p)) + level * tabsize, tabchr)
         \o (IF ~t[p].flag_last THEN ""
             ELSE IF cls = "SetTrie" THEN "#"
             ELSE ": " \o reprValue(cls, t[p].value)) >>
        \o _printtreeChildren(cls, etype, t, p, level, tabchr, tabsize, 1)

_printtreeChildren(cls, etype, t, p, level, tabchr, tabsize, i) ==
    IF i > Len(t[p].children) THEN << >>
    ELSE _printtree(cls, etype, t, Append(p, t[p].children[i]), level + 1,
                    tabchr, tabsize)
            \o _printtreeChildren(cls, etype, t, p, level, tabchr, tabsize, i + 1)

\* SetTrie.printtree(tabchr, tabsize, stream)
printtree(cls, etype, t, tabchr, tabsize) ==
    _printtree(cls, etype, t, << >>, 0, tabchr, tabsize)

\* ------------------------------------------------------------- reference

\* The sets that were added, the keys that were assigned.
Stored == {K \in Sets : assigned[K] # << >>}

\* The payloads assigned to key K, in call order: the history of K without
\* the None that every add(K) left in it.  (A payload is a non-empty string
\* and None the empty tuple: the length tells them apart.)
ValuesFor(K) == SelectSeq(assigned[K], LAMBDA x : Len(x) > 0)

\* No key was inserted by add: every call in the history was an assign.
OnlyAssigned ==
    \A K \in Sets : \A i \in 1..Len(assigned[K]) : Len(assigned[K][i]) > 0

\* Strictly before, in the lexicographic order of ascending element
\* sequences: a proper prefix comes first.
RECURSIVE LexLess(_, _)
LexLess(a, b) ==
    IF b = << >> THEN FALSE
    ELSE IF a = << >> THEN TRUE
    ELSE IF Head(a) # Head(b) THEN Head(a) < Head(b)
    ELSE LexLess(Tail(a), Tail(b))

\* The items of a sequence, and whether it holds no item twice.
Items(s) == {s[i] : i \in 1..Len(s)}

NoRepeat(s) == \A i, j \in 1..Len(s) : i # j => s[i] # s[j]

\* ------------------------------------------------------------- claims

\* C1 (as stated): for every reachable trie and every query set Q,
\* hassuperset(Q) is true iff supersets(Q) is non-empty iff some stored set
\* S has Q \subseteq S.
C1_SupersetCorrectness ==
    LET stored == Stored
    IN  \A Q \in Sets :
            /\ hassuperset(nodes, Q) <=> (supersets(kind, nodes, Q, "keys") # << >>)
            /\ hassuperset(nodes, Q) <=> (\E S \in stored : Q \subseteq S)

\* C2: for every reachable trie and every query set Q, hassubset(Q) is true
\* iff subsets(Q) is non-empty iff some stored set S has S \subseteq Q.
C2_SubsetCorrectness ==
    LET stored == Stored
    IN  \A Q \in Sets :
            /\ hassubset(nodes, Q) <=> (subsets(kind, nodes, Q, "keys") # << >>)
            /\ hassubset(nodes, Q) <=> (\E S \in stored : S \subseteq Q)

\* C2's case: a stored set inside a query that skips an element of the
\* universe, and a query with no stored subset.
C2_Witness ==
    /\ {1, 3} \in Stored
    /\ {1} \notin Stored /\ {} \notin Stored /\ {3} \notin Stored
    /\ hassubset(nodes, {1, 2, 3})
    /\ ~hassubset(nodes, {1, 2})

\* C3: supersets(Q) is the full iteration filtered by Q \subseteq S: exactly
\* the stored supersets of Q, each once, in iteration order.
C3_SupersetsEnumeration ==
    LET stored == Stored
        all == keys(kind, nodes)
    IN  \A Q \in Sets :
            LET out == supersets(kind, nodes, Q, "keys")
            IN  /\ out = SelectSeq(all, LAMBDA S : Q \subseteq S)
                /\ Items(out) = {S \in stored : Q \subseteq S}
                /\ NoRepeat(out)

\* C3's case: a query whose supersets lie in two branches of the trie, with
\* stored sets that are no superset of it.
C3_Witness ==
    /\ kind = "SetTrie"
    /\ supersets(kind, nodes, {3}, "keys") = <<{1, 3}, {2, 3}>>
    /\ {1, 2} \in Stored

\* C4: subsets(Q) is the full iteration filtered by S \subseteq Q: exactly
\* the stored subsets of Q, each once, in iteration order; and for a Q that
\* holds every element of every stored set it is the full iteration, in
\* every mode.
C4_SubsetsEnumeration ==
    LET stored == Stored
        all == keys(kind, nodes)
    IN  \A Q \in Sets :
            LET out == subsets(kind, nodes, Q, "keys")
            IN  /\ out = SelectSeq(all, LAMBDA S : S \subseteq Q)
                /\ Items(out) = {S \in stored : S \subseteq Q}
                /\ NoRepeat(out)
                /\ (\A S \in stored : S \subseteq Q) =>
                      \A mode \in Modes :
                          subsets(kind, nodes, Q, mode) = iter(kind, nodes, mode)

\* C4's case: on a map filled by assign, a query with a stored subset and a
\* stored key that is none, in the default mode.
C4_Witness ==
    /\ kind = "SetTrieMap"
    /\ OnlyAssigned
    /\ subsets(kind, nodes, {1, 3}, "None") = << <<{1, 3}, "B">> >>
    /\ {1, 2} \in Stored

\* C5: contains(S) is true for every set that was added and false for every
\* set that was not, a proper prefix or extension of a stored path included.
C5_ExactMembership ==
    \A S \in Sets : contains(nodes, S) <=> S \in Stored

\* C5's case: a stored set, with its proper prefix and its extension absent.
C5_Witness ==
    /\ contains(nodes, {1, 2})
    /\ ~contains(nodes, {1})
    /\ ~contains(nodes, {1, 2, 3})
    /\ Len(nodes[<<1>>].children) = 1

\* C6 (as stated): full iteration emits exactly what was inserted: a SetTrie
\* each added set once, a SetTrieMap one entry per key, a SetTrieMultiMap in
\* its default mode one entry per stored value.  On a SetTrieMultiMap a key
\* that was inserted with the inherited add alone holds no value list, and
\* the default-mode iteration raises TypeError when it comes to it.
C6_EnumerationCompleteness ==
    LET out == iter(kind, nodes, "None")
    IN  /\ kind = "SetTrie" =>
              /\ Items(out) = Stored
              /\ Len(out) = Cardinality(Stored)
        /\ kind = "SetTrieMap" =>
              /\ {out[i][1] : i \in 1..Len(out)} = Stored
              /\ Len(out) = Cardinality(Stored)
              /\ Len(keys(kind, nodes)) = Cardinality(Stored)
        /\ kind = "SetTrieMultiMap" =>
              /\ ~Raised(kind, "None", out)
              /\ \A i \in 1..Len(out) : out[i][1] \in Stored /\ out[i][2] \in Values
              /\ Items(keys(kind, nodes)) = Stored
              /\ \A K \in Stored, v \in Values :
                    Cardinality({i \in 1..Len(out) : out[i] = <<K, v>>})
                      = Cardinality({j \in 1..Len(ValuesFor(K)) : ValuesFor(K)[j] = v})

\* C7: full iteration emits the stored sets in ascending lexicographic order
\* of their sorted element sequences, a proper prefix first; so the order is
\* fixed by the set of stored sets.
C7_IterationOrder ==
    LET out == keys(kind, nodes)
    IN  /\ Items(out) = Stored
        /\ \A i, j \in 1..Len(out) :
              i < j => LexLess(sorted(out[i]), sorted(out[j]))

\* C7's case: three stored sets in two branches, one a prefix of another.
C7_Witness ==
    /\ keys(kind, nodes) = <<{1}, {1, 2}, {2}>>

\* C8: add(S) on a SetTrie that stores S leaves the trie as it is.
C8_AddIdempotent ==
    kind = "SetTrie" => \A S \in Stored : add(nodes, S) = nodes

\* C8's case: a set that was added twice.
C8_Witness ==
    /\ kind = "SetTrie"
    /\ Len(assigned[{1, 2}]) = 2

\* C9: get(K, d) of a SetTrieMap is the value of the latest assign(K, .),
\* and d for a key never assigned.
C9_MapGet ==
    kind = "SetTrieMap" =>
        \A K \in Sets, d \in Defaults :
            get(nodes, K, d) =
                IF assigned[K] # << >>
                THEN Some(assigned[K][Len(assigned[K])])
                ELSE d

\* C9's case: a key assigned twice with different values, its proper prefix
\* and its extension never assigned.
C9_Witness ==
    /\ kind = "SetTrieMap"
    /\ assigned[{1, 2}] = <<"A", "B">>
    /\ get(nodes, {1, 2}, None) = Some("B")
    /\ get(nodes, {1}, Some("dflt")) = Some("dflt")
    /\ get(nodes, {1, 2, 3}, None) = None

\* C10: after any sequence of assign calls, get(K) and iterget(K) of a
\* SetTrieMultiMap give the values assigned to K in call order, count(K)
\* their number, and assign(K, v) returns the count as it stands after the
\* call.  An iterget generator that the caller holds and advances item by
\* item has yielded, at every moment, the first values assigned to K in call
\* order, and stands behind the last one it yielded.  (Taking and advancing
\* a generator touch neither the trie nor the history, so what depends on
\* these alone is evaluated in the states in which the caller holds none.)
C10_MultiMapGet ==
    (kind = "SetTrieMultiMap" /\ OnlyAssigned) =>
        /\ \A K \in {S \in Sets : \A k \in IterIds : its[k] = None} :
              /\ \A d \in Defaults :
                    get(nodes, K, d) =
                        IF assigned[K] # << >> THEN Some(assigned[K]) ELSE d
              /\ iterget(nodes, K) = assigned[K]
              /\ count(nodes, K) = Len(assigned[K])
              /\ \A v \in Values :
                    LET r == SetTrieMultiMap_assign_pub(nodes, K, v)
                    IN  /\ r[2] = Len(assigned[K]) + 1
                        /\ count(r[1], K) = r[2]
        /\ ret # None => \E K \in Stored : ret = Some(Len(assigned[K]))
        /\ \A k \in IterIds :
              its[k] # None =>
                  LET g == its[k][1]
                      K == g.q[2]
                      n == Len(g.stack)
                  IN  /\ Len(g.out) <= Len(assigned[K])
                      /\ g.out = SubSeq(assigned[K], 1, Len(g.out))
                      /\ (n > 0 /\ g.stack[n].pc = "value") =>
                            /\ g.stack[n].node = sorted(K)
                            /\ g.stack[n].k = Len(g.out)
                      /\ g.done => n = 0

\* C10's case: the caller took an iterget generator for a key, and it has
\* yielded the two values the key was assigned, the last call having
\* returned 2.
C10_Witness ==
    /\ kind = "SetTrieMultiMap"
    /\ OnlyAssigned
    /\ ValuesFor({1, 3}) = <<"A", "B">>
    /\ ret = Some(2)
    /\ its[1] # None
    /\ its[1][1].q = <<"iterget", {1, 3}, "None">>
    /\ its[1][1].out = <<"A", "B">>

\* The values assigned to the keys of the sequence ks, key after key, each
\* key's values in call order; and the same as (key, value) pairs.
RECURSIVE ValuesOf(_), PairsOf(_)
ValuesOf(ks) ==
    IF ks = << >> THEN << >>
    ELSE ValuesFor(Head(ks)) \o ValuesOf(Tail(ks))

PairsOf(ks) ==
    IF ks = << >> THEN << >>
    ELSE [i \in 1..Len(ValuesFor(Head(ks))) |-> <<Head(ks), ValuesFor(Head(ks))[i]>>]
            \o PairsOf(Tail(ks))

\* C11 (as stated): every enumeration of a SetTrieMultiMap (full iteration,
\* supersets(Q), subsets(Q)) emits in mode keys each matching key once,
\* however many values it holds, the keys in pre-order; in mode values and in
\* the default pairs mode it emits one entry per stored value, the values of
\* one key together and in the order they were assigned, key after key in
\* the same pre-order.  When a matching key was inserted by the inherited add
\* alone, the values and pairs enumerations raise TypeError at that key.
C11_MultiMapModes ==
    kind = "SetTrieMultiMap" =>
        LET all == iter(kind, nodes, "keys")
        IN  /\ Items(all) = Stored
            /\ \A i, j \in 1..Len(all) :
                  i < j => LexLess(sorted(all[i]), sorted(all[j]))
            /\ iter(kind, nodes, "values") = ValuesOf(all)
            /\ iter(kind, nodes, "None") = PairsOf(all)
            /\ \A Q \in Sets :
                  LET sup == supersets(kind, nodes, Q, "keys")
                      sub == subsets(kind, nodes, Q, "keys")
                  IN  /\ sup = SelectSeq(all, LAMBDA S : Q \subseteq S)
                      /\ supersets(kind, nodes, Q, "values") = ValuesOf(sup)
                      /\ supersets(kind, nodes, Q, "None") = PairsOf(sup)
                      /\ sub = SelectSeq(all, LAMBDA S : S \subseteq Q)
                      /\ subsets(kind, nodes, Q, "values") = ValuesOf(sub)
                      /\ subsets(kind, nodes, Q, "None") = PairsOf(sub)

\* What a mode shows of a default-mode entry (key, value), entry by entry.
Project(pairs, mode) ==
    [i \in 1..Len(pairs) |->
        IF mode = "keys" THEN pairs[i][1]
        ELSE IF mode = "values" THEN pairs[i][2]
        ELSE pairs[i]]

\* A sequence without the items that repeat their predecessor.
RECURSIVE Collapse(_)
Collapse(s) ==
    IF Len(s) < 2 THEN s
    ELSE IF s[1] = s[2] THEN Collapse(Tail(s))
    ELSE <<s[1]>> \o Collapse(Tail(s))

\* The entries a default-mode enumeration emitted: all of it but the
\* exception it ended with, if it raised.
Entries(cls, dflt) ==
    IF Raised(cls, "None", dflt) THEN SubSeq(dflt, 1, Len(dflt) - 1) ELSE dflt

\* C12 (as stated): on a SetTrieMap and a SetTrieMultiMap every enumeration
\* in every mode has as many emissions, in the same order, as the same
\* enumeration in the default mode, each the key, the value or the pair of
\* the corresponding default-mode entry; a mode other than keys and values
\* is the pairs mode.
C12_ProjectionAsStated ==
    kind \in {"SetTrieMap", "SetTrieMultiMap"} =>
        \A mode \in Modes :
            /\ ~Raised(kind, "None", iter(kind, nodes, "None"))
            /\ iter(kind, nodes, mode) = Project(iter(kind, nodes, "None"), mode)
            /\ \A Q \in Sets :
                  /\ ~Raised(kind, "None", supersets(kind, nodes, Q, "None"))
                  /\ supersets(kind, nodes, Q, mode)
                        = Project(supersets(kind, nodes, Q, "None"), mode)
                  /\ ~Raised(kind, "None", subsets(kind, nodes, Q, "None"))
                  /\ subsets(kind, nodes, Q, mode)
                        = Project(subsets(kind, nodes, Q, "None"), mode)

\* What the enumeration out, made in a mode, shows of the same enumeration
\* dflt made in the default mode.  Entry by entry the key, the value or the
\* pair, and the TypeError where dflt raised it; but the keys mode of a
\* SetTrieMultiMap shows a key once for the run of entries it has in dflt,
\* and goes on beyond the key at which dflt raised.
ModeView(out, dflt, mode) ==
    LET entries == Entries(kind, dflt)
        raised == Raised(kind, "None", dflt)
    IN  IF kind = "SetTrieMultiMap" /\ mode = "keys"
        THEN LET once == Collapse(Project(entries, mode))
             IN  IF raised
                 THEN Len(once) < Len(out) /\ SubSeq(out, 1, Len(once)) = once
                 ELSE out = once
        ELSE out = Project(entries, mode)
                      \o (IF raised THEN <<Raise(mode)>> ELSE << >>)

\* C12 (amended): on a SetTrieMap every enumeration in every mode is the
\* entry-by-entry projection of the same enumeration in the default mode; on
\* a SetTrieMultiMap so are the values mode and the pairs mode (an
\* enumeration that raises TypeError in the default mode raises it in the
\* values mode after as many entries), while the keys mode emits the keys of
\* the default-mode entries with each run of equal keys shown once, and
\* further keys when the default mode raised; a mode other than keys and
\* values is the pairs mode.  (Every mode but the default one is compared
\* with the default one.)
C12_Projection ==
    kind \in {"SetTrieMap", "SetTrieMultiMap"} =>
        LET others == Modes \ {"None"}
        IN  /\ LET dflt == iter(kind, nodes, "None")
               IN  \A mode \in others : ModeView(iter(kind, nodes, mode), dflt, mode)
            /\ \A Q \in Sets :
                  /\ LET dflt == supersets(kind, nodes, Q, "None")
                     IN  \A mode \in others :
                             ModeView(supersets(kind, nodes, Q, mode), dflt, mode)
                  /\ LET dflt == subsets(kind, nodes, Q, "None")
                     IN  \A mode \in others :
                             ModeView(subsets(kind, nodes, Q, mode), dflt, mode)

\* C12's case: a SetTrieMultiMap key with two values under a query, so that
\* the keys mode is shorter than the default mode, and an unrecognized mode.
C12_Witness ==
    /\ kind = "SetTrieMultiMap"
    /\ subsets(kind, nodes, {1, 2}, "None") = << <<{1, 2}, "A">>, <<{1, 2}, "B">> >>
    /\ subsets(kind, nodes, {1, 2}, "keys") = <<{1, 2}>>
    /\ subsets(kind, nodes, {1, 2}, "values") = <<"A", "B">>
    /\ subsets(kind, nodes, {1, 2}, "other") = subsets(kind, nodes, {1, 2}, "None")

\* C13: on a freshly constructed container full iteration yields nothing,
\* hassuperset(Q) is true exactly for the empty Q, and hassubset(Q) is false
\* for every Q.
C13_EmptyContainer ==
    nops = 0 =>
        /\ \A mode \in Modes : iter(kind, nodes, mode) = << >>
        /\ \A Q \in Sets :
              /\ hassuperset(nodes, Q) <=> (Q = {})
              /\ ~hassubset(nodes, Q)

\* C13's case: the container as constructed, the root its only node, asked
\* for a superset of the empty set and of another set.
C13_Witness ==
    /\ nops = 0
    /\ DOMAIN nodes = {<< >>}
    /\ hassuperset(nodes, {})
    /\ ~hassuperset(nodes, {1})
    /\ ~hassubset(nodes, {})

\* C14: a query (contains, hassuperset, hassubset, supersets, subsets, full
\* iteration, get, count, iterget) leaves the whole trie as it was, whether
\* it finds something or nothing: a step changes the trie only if it is an
\* add/assign call.
C14_QueriesPure ==
    [][ /\ nodes' # nodes => nops' = nops + 1
        /\ (qret' # None /\ nops' = nops) =>
              /\ nodes' = nodes
              /\ assigned' = assigned ]_vars

\* C14's case: a supersets query that walked a trie of three nodes and found
\* the stored set, in a step that left the trie alone.
C14_Witness ==
    /\ kind = "SetTrie"
    /\ qret # None
    /\ qret[1] = "supersets"
    /\ qret[2] = <<{1, 2}>>
    /\ DOMAIN nodes = {<< >>, <<1>>, <<1, 2>>}

\* C15: an add/assign call deletes no node and makes no terminal node
\* non-terminal; so a set that contains finds is found after every later
\* call, and a hassuperset or hassubset that is true stays true.
C15_Monotonic ==
    [][ /\ DOMAIN nodes \subseteq DOMAIN nodes'
        /\ \A p \in DOMAIN nodes : nodes[p].flag_last => nodes'[p].flag_last
        /\ \A S \in Sets :
              /\ contains(nodes, S) => contains(nodes', S)
              /\ hassuperset(nodes, S) => hassuperset(nodes', S)
              /\ hassubset(nodes, S) => hassubset(nodes', S) ]_vars

\* C15's case: a stored set of two elements, and after it a call that went
\* through its terminal node to store a longer set.
C15_Witness ==
    /\ nops = 2
    /\ assigned[{1, 2}] # << >>
    /\ assigned[{1, 2, 3}] # << >>
    /\ nodes[<<1, 2>>].flag_last
    /\ contains(nodes, {1, 2})

\* The nodes on the path of key K: the prefixes of its sorted elements.
PathNodes(K) == {SubSeq(sorted(K), 1, n) : n \in 0..Cardinality(K)}

\* C16: an add/assign of K creates only nodes on K's sorted path and changes
\* the label, the terminal flag and the value of no node but the end of that
\* path, whose label it keeps (nodes off the path keep their children too);
\* on a SetTrieMap, get(K') is unchanged for every other key K', and an
\* assign to a key that is stored creates no node and changes no terminal
\* flag: only the value held for K (the inherited add of a stored key
\* changes nothing at all).
C16_AssignFrame ==
    [][ nops' = nops + 1 =>
          LET K == CHOOSE S \in Sets : assigned'[S] # assigned[S]
              end == sorted(K)
              path == PathNodes(K)
              passed == assigned'[K][Len(assigned'[K])]
          IN  /\ DOMAIN nodes \subseteq DOMAIN nodes'
              /\ (DOMAIN nodes' \ DOMAIN nodes) \subseteq path
              /\ \A p \in DOMAIN nodes :
                    /\ nodes'[p].data = nodes[p].data
                    /\ p # end =>
                          /\ nodes'[p].flag_last = nodes[p].flag_last
                          /\ nodes'[p].value = nodes[p].value
                    /\ p \notin path => nodes'[p] = nodes[p]
              /\ kind = "SetTrieMap" =>
                    /\ \A K2 \in Sets \ {K}, d \in Defaults :
                          get(nodes', K2, d) = get(nodes, K2, d)
                    /\ assigned[K] # << >> =>
                          /\ DOMAIN nodes' = DOMAIN nodes
                          /\ \A p \in DOMAIN nodes :
                                nodes'[p].flag_last = nodes[p].flag_last
                          /\ IF Len(passed) > 0
                             THEN get(nodes', K, None) = Some(passed)
                             ELSE nodes' = nodes ]_vars

\* C16's case: a stored SetTrieMap key assigned a second time, with another
\* value.
C16_Witness ==
    /\ kind = "SetTrieMap"
    /\ ValuesFor({1, 2}) = <<"A", "B">>
    /\ nops = 2
    /\ get(nodes, {1, 2}, None) = Some("B")

\* The list an enumeration gives when it is run to its end in one go.
Enumeration(q) ==
    IF q[1] = "supersets" THEN supersets(kind, nodes, q[2], q[3])
    ELSE IF q[1] = "subsets" THEN subsets(kind, nodes, q[2], q[3])
    ELSE iter(kind, nodes, q[3])

\* C17: on an unmodified trie an iterator yields, however its next calls
\* are interleaved with those of another iterator of an equal invocation,
\* the items of the enumeration in their order: what it has yielded so far
\* is a prefix of that list (it resumes where it stopped), and all of it
\* once the iterator is exhausted; so two such iterators yield the same
\* sequence.
C17_IteratorsIndependent ==
    \A k \in IterIds :
        its[k] # None =>
            LET g == its[k][1]
                full == Enumeration(g.q)
            IN  /\ Len(g.out) <= Len(full)
                /\ g.out = SubSeq(full, 1, Len(g.out))
                /\ g.done => g.out = full

\* C17's case: two iterators over the supersets of one query; the second was
\* run to exhaustion and yielded two sets while the first, which had
\* yielded one, stays where it stopped.
C17_Witness ==
    /\ its[1] # None /\ its[2] # None
    /\ its[1][1].q = <<"supersets", {2}, "None">>
    /\ its[1][1].out = <<{1, 2}>> /\ ~its[1][1].done
    /\ its[2][1].out = <<{1, 2}, {2}>> /\ its[2][1].done

\* The nodes of a set of paths in pre-order with children ascending: a node
\* before its descendants, siblings by label.
RECURSIVE PreOrder(_)
PreOrder(S) ==
    IF S = {} THEN << >>
    ELSE LET first == CHOOSE p \in S : \A q \in S \ {p} : LexLess(p, q)
         IN  <<first>> \o PreOrder(S \ {first})

\* The padding characters and tab sizes a caller passes to printtree.
TabChrs == {" ", "."}

TabSizes == {0, 2, 3}

\* C18 (as stated): printtree writes one line per node in pre-order,
\* children ascending; the line of a node at depth level is level * tabsize
\* copies of the padding character, the textual form of the node's label
\* (None for the root), and for a terminal node '#' on a SetTrie or ': ' and
\* the repr of the value on a SetTrieMap or SetTrieMultiMap.
C18_PrettyPrint ==
    \A etype \in ElemTypes, tabchr \in TabChrs, tabsize \in TabSizes :
        LET lines == printtree(kind, etype, nodes, tabchr, tabsize)
            order == PreOrder(DOMAIN nodes)
        IN  /\ Len(lines) = Cardinality(DOMAIN nodes)
            /\ \A n \in 1..Len(order) :
                  LET p == order[n]
                  IN  lines[n] =
                          Copies(Len(p) * tabsize, tabchr)
                            \o str(etype, nodes, p)
                            \o (IF ~nodes[p].flag_last THEN ""
                                ELSE IF kind = "SetTrie" THEN "#"
                                ELSE ": " \o reprValue(kind, nodes[p].value))

\* C19 (as stated): after every add/assign call on a container of any of
\* the three classes the root node is not terminal.
C19_RootNeverTerminal ==
    ~nodes[<< >>].flag_last

\* C19 (amended): after every add/assign call the root node is terminal
\* exactly if the empty set was added or assigned; so it is not terminal
\* while every argument of add/assign has been a non-empty set.
C19_RootTerminalIffEmptyStored ==
    nodes[<< >>].flag_last <=> (assigned[{}] # << >>)

\* C19's case: a container that went through three add/assign calls of
\* non-empty sets and whose root is not terminal.
C19_Witness ==
    /\ nops = 3
    /\ assigned[{}] = << >>
    /\ assigned[{1}] # << >> /\ assigned[{1, 2}] # << >> /\ assigned[{2}] # << >>
    /\ ~nodes[<< >>].flag_last

\* C20 (as stated): add/assign of the empty set marks the root terminal and
\* creates no node; afterwards contains({}) is true, full iteration (over the
\* container, and in the default mode of a map) emits the empty set first,
\* and get({}) of a SetTrieMap is the value last assigned, of a
\* SetTrieMultiMap the list of the values assigned.  After the inherited
\* add({}) alone the default-mode iteration of a SetTrieMultiMap raises
\* TypeError at the root before it emits anything.
C20_EmptySet ==
    /\ LET t == add(nodes, {})
       IN  /\ DOMAIN t = DOMAIN nodes
           /\ t[<< >>].flag_last
    /\ kind = "SetTrieMap" =>
          \A v \in Values :
              LET t == SetTrieMap_assign_pub(nodes, {}, v)
              IN  /\ DOMAIN t = DOMAIN nodes
                  /\ t[<< >>].flag_last
                  /\ get(t, {}, None) = Some(v)
    /\ kind = "SetTrieMultiMap" =>
          \A v \in Values :
              LET t == SetTrieMultiMap_assign_pub(nodes, {}, v)[1]
              IN  /\ DOMAIN t = DOMAIN nodes
                  /\ t[<< >>].flag_last
                  /\ get(t, {}, None) = Some(Append(ValuesFor({}), v))
    /\ assigned[{}] # << >> =>
          /\ nodes[<< >>].flag_last
          /\ contains(nodes, {})
          /\ keys(kind, nodes)[1] = {}
          /\ kind # "SetTrie" =>
                LET first == iter(kind, nodes, "None")[1]
                IN  /\ ~Raised(kind, "None", <<first>>)
                    /\ first[1] = {}
          /\ (kind = "SetTrieMap" /\ ValuesFor({}) # << >>) =>
                get(nodes, {}, None)
                    = Some(ValuesFor({})[Len(ValuesFor({}))])
          /\ (kind = "SetTrieMultiMap" /\ ValuesFor({}) # << >>) =>
                get(nodes, {}, None) = Some(ValuesFor({}))

\* The node a non-root node hangs from.
Parent(p) == SubSeq(p, 1, Len(p) - 1)

\* C21 (as stated): after every add/assign, whatever iterables of pairwise
\* comparable elements were passed, every non-root node's label is strictly
\* greater than the label of its non-root parent.  An argument that is a list
\* holding an item twice (add([1, 1])) is sorted to [1, 1] and walked item by
\* item, which hangs a node labelled 1 under a node labelled 1.
C21_SortedPath ==
    \A p \in DOMAIN nodes :
        Len(p) >= 2 => nodes[p].data > nodes[Parent(p)].data

\* The children list of every node of trie t is in strictly ascending label
\* order (so no two siblings share a label), and it holds exactly the nodes
\* that hang from that node.
SiblingsOrdered(t) ==
    \A p \in DOMAIN t :
        /\ \A i, j \in 1..Len(t[p].children) :
              i < j => t[p].children[i] < t[p].children[j]
        /\ {Append(p, t[p].children[i]) : i \in 1..Len(t[p].children)}
              = {c \in DOMAIN t \ {<< >>} : Parent(c) = p}

\* C22: after every add/assign (the argument a set or a list, in
\* any order, with or without repeated items) the children of every node have
\* pairwise distinct labels and are held in ascending label order, which is
\* the order the traversals scan them in; the call keeps every node there
\* was, with the children it had, and creates a child under a node only for
\* a label that no child of that node had.
C22_SiblingsUniqueOrdered ==
    [][ /\ SiblingsOrdered(nodes')
        /\ DOMAIN nodes \subseteq DOMAIN nodes'
        /\ \A p \in DOMAIN nodes :
              /\ Items(nodes[p].children) \subseteq Items(nodes'[p].children)
              /\ Len(nodes'[p].children) - Len(nodes[p].children)
                    = Cardinality({c \in DOMAIN nodes' \ DOMAIN nodes :
                                      Parent(c) = p})
        /\ \A c \in DOMAIN nodes' \ DOMAIN nodes :
              /\ nodes'[c].data = c[Len(c)]
              /\ Parent(c) \in DOMAIN nodes =>
                    c[Len(c)] \notin Items(nodes[Parent(c)].children)
      ]_vars

\* Two calls went through the child 1 of the root: the second one found it
\* there and put its own new child in front of or behind the first one's.
C22_Witness ==
    /\ nops = 2
    /\ nodes[<< >>].children = <<1>>
    /\ nodes[<<1>>].children = <<1, 2>>

\* C23 (as stated): after every public operation on a SetTrieMap, a node is
\* terminal if and only if it holds a value (value is not None).  The add
\* that SetTrieMap inherits from SetTrie is a public operation that sets
\* flag_last and leaves value None.
C23_TerminalIntegrity ==
    kind = "SetTrieMap" =>
        \A p \in DOMAIN nodes : nodes[p].flag_last <=> nodes[p].value # None

\* Path p leads to path q or is q: q's node is p's node or hangs below it.
IsPrefix(p, q) == Len(p) <= Len(q) /\ SubSeq(q, 1, Len(p)) = p

\* C24: in every reachable state every non-root node without children is
\* terminal, every non-root node is terminal or has a terminal node below
\* it, and so whenever hassuperset answers True for a non-empty query (its
\* walk consumed the query at a non-root node) some stored set holds every
\* element of the query.
C24_NoDeadBranches ==
    /\ \A p \in DOMAIN nodes \ {<< >>} :
          /\ nodes[p].children = << >> => nodes[p].flag_last
          /\ \E q \in DOMAIN nodes : nodes[q].flag_last /\ IsPrefix(p, q)
          /\ \E K \in Stored : set(p) \subseteq K
    /\ \A Q \in Sets \ {{}} :
          hassuperset(nodes, Q) => \E K \in Stored : Q \subseteq K

\* The node 1 is not terminal and leads to the terminal leaf 1, 2, and
\* hassuperset({1}) stops at the node 1 with True.
C24_Witness ==
    /\ <<1, 2>> \in DOMAIN nodes
    /\ ~nodes[<<1>>].flag_last
    /\ nodes[<<1, 2>>].flag_last
    /\ nodes[<<1, 2>>].children = << >>
    /\ hassuperset(nodes, {1})

\* The calls made for key K, replayed on trie t: one add for a SetTrie
\* however often K was added; for a map the calls in their order, an add
\* where the history holds None and an assign where it holds a value.
RECURSIVE Replay(_, _, _, _)
Replay(cls, t, K, vals) ==
    IF vals = << >> THEN t
    ELSE IF cls = "SetTrie" THEN add(t, K)
    ELSE IF Len(Head(vals)) = 0
         THEN Replay(cls, add(t, K), K, Tail(vals))
    ELSE IF cls = "SetTrieMap"
         THEN Replay(cls, SetTrieMap_assign_pub(t, K, Head(vals)), K, Tail(vals))
         ELSE Replay(cls, SetTrieMultiMap_assign_pub(t, K, Head(vals))[1], K,
                     Tail(vals))

\* The trie built from the empty one by taking the keys of Ks one after the
\* other, the last in pre-order first, and replaying the calls made for each.
RECURSIVE Rebuild(_, _, _)
Rebuild(cls, t, Ks) ==
    IF Ks = {} THEN t
    ELSE LET K == CHOOSE K \in Ks :
                    \A J \in Ks \ {K} : LexLess(sorted(J), sorted(K))
         IN  Rebuild(cls, Replay(cls, t, K, assigned[K]), Ks \ {K})

\* C25: whatever the order the add/assign calls were made in, the trie (its
\* nodes, the order of every children list, the terminal flags and the
\* values) is the one obtained by handling the stored keys in one fixed
\* order: for a SetTrie it depends on the set of sets added alone, for a
\* SetTrieMap/SetTrieMultiMap on the values assigned to each key, in their
\* order per key, and not on how calls for distinct keys were interleaved.
C25_OrderIndependent ==
    nodes = Rebuild(kind, [p \in {<< >>} |-> Node(None)], Stored)

\* C25's case: two sets that share their first element were added, in one
\* order or the other, and hang side by side under the node 1.
C25_Witness ==
    /\ kind = "SetTrie"
    /\ nops = 2
    /\ nodes[<< >>].children = <<1>>
    /\ nodes[<<1>>].children = <<2, 3>>
    /\ assigned[{1, 3}] # << >>
    /\ assigned[{1, 2}] # << >>

====
